---- MODULE Spec2Model ----
(***************************************************************************)
(* Multimodal message adapter of the chat client (lib/multimodal):         *)
(* parseDataUrl, formatImageForProvider, formatMessageContent and          *)
(* buildMessagesForStream.                                                 *)
(*                                                                         *)
(* A JavaScript string is modelled as the sequence of its characters, each *)
(* character a one-character TLA+ string, so that the regular expression   *)
(* and String.prototype.trim are computed character by character.          *)
(* A value of the union type  string | ContentPart[]  carries its run-time *)
(* type in the field typeof.                                               *)
(*                                                                         *)
(* The Chat component (handleSubmit, the drag-and-drop handlers) and the   *)
(* ChatInput component (the attachments of the composer) are modelled as   *)
(* the state of their hooks and one action per handler, an async handler   *)
(* being one action per stretch of code between two awaits.  Each running  *)
(* invocation of an async handler keeps the values its closure captured    *)
(* when it was called.                                                     *)
(***************************************************************************)
EXTENDS Integers, Sequences, FiniteSets, TLC

VARIABLES
    op,             \* the exported function being called
    pc,             \* "call" before the function ran, "done" after it returned
    dataUrl,        \* argument of parseDataUrl
    file,           \* argument of formatImageForProvider
    messages,       \* argument of buildMessagesForStream: prior history
    userContent,    \* argument: text of the new turn
    files,          \* argument: AttachedFile[] | undefined
    supportsVision, \* argument: the model accepts image parts
    provider,       \* argument: ProviderType (any string at run time)
    result,         \* the value returned by the call, None before it returned
    settings,       \* settingsStore: selectedProvider, selectedModel
    chatMessages,   \* Chat: the state messages
    isStreaming,    \* Chat: the state isStreaming
    streamingContent, \* Chat: the state streamingContent
    isDragging,     \* Chat: the state isDragging
    droppedFiles,   \* Chat: the state droppedFiles
    submits,        \* Chat: the invocations of handleSubmit past its guards
    drops,          \* Chat: the running invocations of handleDrop
    attachedFiles,  \* ChatInput: the state attachedFiles
    picks,          \* ChatInput: the running invocations of handleFileSelect
    console,        \* what console.error has reported
    removed,        \* the ids of the attachments removed with their button
    used            \* the files of the user already picked or dropped

adapterVars ==
    <<op, pc, dataUrl, file, messages, userContent, files, supportsVision,
      provider, result>>

componentVars ==
    <<settings, chatMessages, isStreaming, streamingContent, isDragging,
      droppedFiles, submits, drops, attachedFiles, picks, console, removed,
      used>>

vars == <<adapterVars, componentVars>>

-----------------------------------------------------------------------------
(* Bounds *)

MaxHistory == 2
MaxFiles == 2
MaxSubmits == 2

-----------------------------------------------------------------------------
(* Strings *)

\* characters removed by String.prototype.trim (WhiteSpace and LineTerminator)
WhiteSpace == {" ", "\n", "\t"}

RECURSIVE trimStart(_)
trimStart(s) ==
    IF s # <<>> /\ Head(s) \in WhiteSpace THEN trimStart(Tail(s)) ELSE s

RECURSIVE trimEnd(_)
trimEnd(s) ==
    IF s # <<>> /\ s[Len(s)] \in WhiteSpace
    THEN trimEnd(SubSeq(s, 1, Len(s) - 1))
    ELSE s

trim(s) == trimEnd(trimStart(s))

\* the literals of the regular expression /^data:([^;]+);base64,(.+)$/s
DataPrefix == <<"d", "a", "t", "a", ":">>
Base64Marker == <<";", "b", "a", "s", "e", "6", "4", ",">>

\* the default media type of parseDataUrl
ImagePng == <<"i", "m", "a", "g", "e", "/", "p", "n", "g">>

None == [none |-> TRUE]

-----------------------------------------------------------------------------
(* parseDataUrl *)

\* The positions at which capture group 1 of /^data:([^;]+);base64,(.+)$/s
\* can end: "data:" at the start, one or more characters other than ";",
\* the literal ";base64,", then one or more characters of any kind (flag s:
\* "." matches line terminators too) up to the end of the input.
matchEnds(s) ==
    { i \in 6..Len(s) :
        /\ SubSeq(s, 1, 5) = DataPrefix
        /\ \A k \in 6..i : s[k] # ";"
        /\ i + 9 <= Len(s)
        /\ SubSeq(s, i + 1, i + 8) = Base64Marker }

\* dataUrl.match(...): null, or the two capture groups
match(s) ==
    IF matchEnds(s) = {}
    THEN [matched |-> FALSE, g1 |-> <<>>, g2 |-> <<>>]
    ELSE LET i == CHOOSE e \in matchEnds(s) : \A o \in matchEnds(s) : o <= e
         IN  [matched |-> TRUE,
              g1 |-> SubSeq(s, 6, i),
              g2 |-> SubSeq(s, i + 9, Len(s))]

\* parseDataUrl returning the input as it is when the expression does not
\* match
parseDataUrl_NoTrim(s) ==
    LET m == match(s)
    IN  IF m.matched
        THEN [mediaType |-> m.g1, base64Data |-> trim(m.g2)]
        ELSE [mediaType |-> ImagePng, base64Data |-> s]

parseDataUrl(s) ==
    LET m == match(s)
    IN  IF m.matched
        THEN [mediaType |-> m.g1, base64Data |-> trim(m.g2)]
        ELSE [mediaType |-> ImagePng, base64Data |-> trim(s)]

-----------------------------------------------------------------------------
(* formatImageForProvider, formatMessageContent *)

\* ContentPart values as the code builds them
TextPart(text) == [type |-> "text", content |-> text]
ImagePart(kind, value) ==
    [type |-> "image", source |-> [type |-> kind, value |-> value]]

\* formatImageForProvider passing the data URL, header included, as the
\* inline payload
formatImageForProvider_KeepHeader(f, p) ==
    IF p \in {"anthropic", "gemini"}
    THEN ImagePart("data", f.data)
    ELSE ImagePart("url", f.data)

\* formatImageForProvider passing the parsed payload as the URL
formatImageForProvider_UrlPayload(f, p) ==
    LET base64Data == parseDataUrl(f.data).base64Data
    IN  IF p \in {"anthropic", "gemini"}
        THEN ImagePart("data", base64Data)
        ELSE ImagePart("url", base64Data)

\* formatImageForProvider with a switch that has no default case: nothing
\* is returned for a provider it does not list
formatImageForProvider_NoDefault(f, p) ==
    LET base64Data == parseDataUrl(f.data).base64Data
    IN  IF p \in {"anthropic", "gemini"}
        THEN ImagePart("data", base64Data)
        ELSE IF p = "openai"
             THEN ImagePart("url", f.data)
             ELSE None

formatImageForProvider(f, p) ==
    LET base64Data == parseDataUrl(f.data).base64Data
    IN  IF p \in {"anthropic", "gemini"}
        THEN ImagePart("data", base64Data)
        ELSE ImagePart("url", f.data)

\* files.map((file) => formatImageForProvider(file, provider))
mapFormatImage(fs, p) ==
    [i \in 1..Len(fs) |-> formatImageForProvider(fs[i], p)]

\* formatMessageContent with the image parts before the text part
formatMessageContent_ImagesFirst(text, fs, p) ==
    mapFormatImage(fs, p) \o <<TextPart(text)>>

formatMessageContent(text, fs, p) ==
    <<TextPart(text)>> \o mapFormatImage(fs, p)

-----------------------------------------------------------------------------
(* buildMessagesForStream *)

\* a value of type  string | ContentPart[]
StringContent(s) == [typeof |-> "string", value |-> s]
PartsContent(parts) == [typeof |-> "object", value |-> parts]

\* AttachedFile[] | undefined
Undefined == [defined |-> FALSE, list |-> <<>>]
FileList(fs) == [defined |-> TRUE, list |-> fs]

\* hasFiles testing the array for truthiness only (an empty array is truthy)
hasFiles_Truthy(fl) == fl.defined

\* const hasFiles = files && files.length > 0
hasFiles(fl) == fl.defined /\ Len(fl.list) > 0

\* (m) => ({ role: m.role, content: m.content })
roleAndContent(m) == [role |-> m.role, content |-> StringContent(m.content)]

\* the filter predicate without the trim
hasContent_NoTrim(m) == m.content # <<>>

\* (m) => m.content && m.content.trim().length > 0
hasContent(m) == m.content # <<>> /\ Len(trim(m.content)) > 0

RECURSIVE filter(_)
filter(ms) ==
    IF ms = <<>> THEN <<>>
    ELSE IF hasContent(Head(ms))
         THEN <<Head(ms)>> \o filter(Tail(ms))
         ELSE filter(Tail(ms))

mapRoleAndContent(ms) == [i \in 1..Len(ms) |-> roleAndContent(ms[i])]

\* buildMessagesForStream without the filter of branch 2
buildMessagesForStream_NoFilter(ms, text, fl, vision, p) ==
    IF ~hasFiles(fl) \/ ~vision
    THEN mapRoleAndContent(ms)
            \o <<[role |-> "user", content |-> StringContent(text)]>>
    ELSE mapRoleAndContent(ms)
            \o <<[role |-> "user",
                  content |-> PartsContent(
                                 formatMessageContent(text, fl.list, p))]>>

\* buildMessagesForStream filtering the history in both branches
buildMessagesForStream_FilterAlways(ms, text, fl, vision, p) ==
    IF ~hasFiles(fl) \/ ~vision
    THEN mapRoleAndContent(filter(ms))
            \o <<[role |-> "user", content |-> StringContent(text)]>>
    ELSE mapRoleAndContent(filter(ms))
            \o <<[role |-> "user",
                  content |-> PartsContent(
                                 formatMessageContent(text, fl.list, p))]>>

\* buildMessagesForStream not consulting supportsVision
buildMessagesForStream_IgnoreVision(ms, text, fl, vision, p) ==
    IF ~hasFiles(fl)
    THEN mapRoleAndContent(ms)
            \o <<[role |-> "user", content |-> StringContent(text)]>>
    ELSE mapRoleAndContent(filter(ms))
            \o <<[role |-> "user",
                  content |-> PartsContent(
                                 formatMessageContent(text, fl.list, p))]>>

buildMessagesForStream(ms, text, fl, vision, p) ==
    IF ~hasFiles(fl) \/ ~vision
    THEN mapRoleAndContent(ms)
            \o <<[role |-> "user", content |-> StringContent(text)]>>
    ELSE LET previousMessages == mapRoleAndContent(filter(ms))
         IN  previousMessages
                \o <<[role |-> "user",
                      content |-> PartsContent(
                                     formatMessageContent(text, fl.list, p))]>>

-----------------------------------------------------------------------------
(* Inputs *)

\* ProviderType, and one value outside it (the caller passes
\* selectedProvider as any)
Providers == {"openai", "anthropic", "gemini", "ollama", "mistral"}

\* pieces from which the data strings are put together
Leads == {<<>>, <<" ">>}
Schemes == {<<>>, DataPrefix}
MediaTypes ==
    { <<>>,
      ImagePng,
      <<"i", "m", "a", "g", "e", "/", "j", "p", "e", "g">>,
      <<"t", "e", "x", "t", "/", "x", ";", "c", "=", "u">> }
Markers == {Base64Marker, <<",">>}
Payloads ==
    { <<>>,
      <<" ">>,
      <<"Q", "U", "J", "D">>,
      <<" ", "Q", "U", "J", "D", "\n">>,
      <<"Q", "U", "\n", "J", "D">> }

DataUrls ==
    { l \o s \o m \o k \o p :
        l \in Leads, s \in Schemes, m \in MediaTypes, k \in Markers,
        p \in Payloads }

\* an AttachedFile whose data is d (preview is the same string, as the
\* file picker and the drop handler build it)
AttachedFile(id, d) ==
    [id |-> id, name |-> "image", type |-> "image/png", size |-> Len(d),
     data |-> d, preview |-> d]

\* the data strings of the attachments of a turn: a data URL whose payload
\* ends in a line terminator, a raw payload, a data URL with an empty payload
FileData ==
    { DataPrefix \o ImagePng \o Base64Marker \o <<"Q", "U", "J", "D", "\n">>,
      <<" ", "Q", "U", "J", "D">>,
      DataPrefix \o ImagePng \o Base64Marker }

FileLists ==
    {Undefined} \cup
    { FileList([i \in 1..n |-> AttachedFile(i, ds[i])]) :
        n \in 0..MaxFiles, ds \in [1..MaxFiles -> FileData] }

\* a Message of the history
Message(id, role, content) ==
    [id |-> id, role |-> role, content |-> content, createdAt |-> id,
     files |-> Undefined]

Roles == {"user", "assistant"}
Contents == {<<>>, <<" ", "\n">>, <<" ", "o", "k">>}
UserContents == {<<>>, <<"h", "i">>}

Histories ==
    { [i \in 1..n |-> Message(i, rs[i], cs[i])] :
        n \in 0..MaxHistory,
        rs \in [1..MaxHistory -> Roles], cs \in [1..MaxHistory -> Contents] }

-----------------------------------------------------------------------------
(* The components after their first render *)

\* AI_PROVIDERS: the models that can be selected and whether they accept
\* images
AI_PROVIDERS ==
    { [id |-> "openai", model |-> "text", supportsVision |-> FALSE],
      [id |-> "anthropic", model |-> "vision", supportsVision |-> TRUE] }

ComponentInit ==
    /\ settings = [selectedProvider |-> "anthropic", selectedModel |-> "vision"]
    /\ chatMessages = <<>>
    /\ isStreaming = FALSE
    /\ streamingContent = <<>>
    /\ isDragging = FALSE
    /\ droppedFiles = <<>>
    /\ submits = <<>>
    /\ drops = {}
    /\ attachedFiles = <<>>
    /\ picks = {}
    /\ console = {}
    /\ removed = {}
    /\ used = {}

-----------------------------------------------------------------------------
(* Calls *)

NoFile == AttachedFile(0, <<>>)

InitParse ==
    /\ op = "parseDataUrl"
    /\ dataUrl \in DataUrls
    /\ file = NoFile
    /\ messages = <<>> /\ userContent = <<>> /\ files = Undefined
    /\ supportsVision = FALSE /\ provider = "openai"

InitFormat ==
    /\ op = "formatImageForProvider"
    /\ dataUrl = <<>>
    /\ file \in { AttachedFile(1, d) : d \in DataUrls }
    /\ messages = <<>> /\ userContent = <<>> /\ files = Undefined
    /\ supportsVision = FALSE
    /\ provider \in Providers

InitBuild ==
    /\ op = "buildMessagesForStream"
    /\ dataUrl = <<>>
    /\ file = NoFile
    /\ messages \in Histories
    /\ userContent \in UserContents
    /\ files \in FileLists
    /\ supportsVision \in BOOLEAN
    /\ provider \in Providers

Init ==
    /\ pc = "call"
    /\ result = None
    /\ (InitParse \/ InitFormat \/ InitBuild)
    /\ ComponentInit

CallParseDataUrl ==
    /\ pc = "call" /\ op = "parseDataUrl"
    /\ result' = parseDataUrl(dataUrl)
    /\ pc' = "done"
    /\ UNCHANGED <<op, dataUrl, file, messages, userContent, files,
                   supportsVision, provider>>
    /\ UNCHANGED componentVars

CallFormatImageForProvider ==
    /\ pc = "call" /\ op = "formatImageForProvider"
    /\ result' = formatImageForProvider(file, provider)
    /\ pc' = "done"
    /\ UNCHANGED <<op, dataUrl, file, messages, userContent, files,
                   supportsVision, provider>>
    /\ UNCHANGED componentVars

CallBuildMessagesForStream ==
    /\ pc = "call" /\ op = "buildMessagesForStream"
    /\ result' = buildMessagesForStream(messages, userContent, files,
                                        supportsVision, provider)
    /\ pc' = "done"
    /\ UNCHANGED <<op, dataUrl, file, messages, userContent, files,
                   supportsVision, provider>>
    /\ UNCHANGED componentVars

Next ==
    \/ CallParseDataUrl
    \/ CallFormatImageForProvider
    \/ CallBuildMessagesForStream

Spec == Init /\ [][Next]_vars

TypeOK ==
    /\ pc \in {"call", "done"}
    /\ op \in {"parseDataUrl", "formatImageForProvider",
               "buildMessagesForStream"}
    /\ supportsVision \in BOOLEAN
    /\ provider \in Providers
    /\ pc = "call" => result = None

-----------------------------------------------------------------------------
(* Chat: handleSubmit *)

\* const supportsVision = currentModel?.supportsVision || false
modelSupportsVision ==
    \E r \in AI_PROVIDERS :
        /\ r.id = settings.selectedProvider
        /\ r.model = settings.selectedModel
        /\ r.supportsVision

\* the user selects another model
ChangeSettings ==
    /\ \E r \in AI_PROVIDERS :
         /\ settings' = [selectedProvider |-> r.id, selectedModel |-> r.model]
         /\ settings' # settings
    /\ UNCHANGED <<chatMessages, isStreaming, streamingContent, isDragging,
                   droppedFiles, submits, drops, attachedFiles, picks,
                   console, removed, used>>
    /\ UNCHANGED adapterVars

\* the texts the user types
Texts == {<<" ">>, <<"h", "i">>}

\* the content of the one chunk a stream delivers
Replies == {<<"o", "k">>}

ApologyText ==
    <<
       "S", "o", "r", "r", "y", ",", " ", "I", " ", "c", "o", "u", "l",
       "d", "n", "'", "t", " ", "p", "r", "o", "c", "e", "s", "s", " ",
       "y", "o", "u", "r", " ", "r", "e", "q", "u", "e", "s", "t", ".",
       " ", "P", "l", "e", "a", "s", "e", " ", "t", "r", "y", " ", "a",
       "g", "a", "i", "n", "."
    >>

\* crypto.randomUUID(): the messages of the k-th accepted submission
UserMessageId(k) == 3 * k - 2
ReplyMessageId(k) == 3 * k - 1
ErrorMessageId(k) == 3 * k

UserMessage(k, text, fl) ==
    [Message(UserMessageId(k), "user", text) EXCEPT !.files = fl]

\* if (!userContent.trim() || isStreaming) return
rejectsSubmit(text, streaming) == Len(trim(text)) = 0 \/ streaming

\* the guard with files.length > 1
rejectsAttachments_OffByOne(fl, vision) ==
    fl.defined /\ Len(fl.list) > 1 /\ ~vision

\* if (files && files.length > 0 && !supportsVision) return
rejectsAttachments(fl, vision) == fl.defined /\ Len(fl.list) > 0 /\ ~vision

\* handleSubmit(text, fl) up to its first await: the guards, the user
\* message, the call of addMessage.  The invocation keeps messages,
\* supportsVision and selectedProvider of the render it was created in.
handleSubmit(text, fl) ==
    IF rejectsSubmit(text, isStreaming)
    THEN UNCHANGED <<chatMessages, submits, console>>
    ELSE IF rejectsAttachments(fl, modelSupportsVision)
         THEN /\ console' = console \cup {"Current model does not support images"}
              /\ UNCHANGED <<chatMessages, submits>>
         ELSE LET k == Len(submits) + 1
              IN  /\ chatMessages' = Append(chatMessages, UserMessage(k, text, fl))
                  /\ submits' =
                       Append(submits,
                              [pc |-> "addMessage",
                               userContent |-> text,
                               files |-> fl,
                               messages |-> chatMessages,
                               supportsVision |-> modelSupportsVision,
                               selectedProvider |-> settings.selectedProvider,
                               fullContent |-> <<>>])
                  /\ UNCHANGED console

\* an invocation that has returned (done), returned through its catch block
\* (caught) or ended in the rejection of an await outside the try (failed);
\* what its closure held is gone
returned(s, how) ==
    [pc |-> how, userContent |-> <<>>, files |-> Undefined,
     messages |-> <<>>, supportsVision |-> FALSE, selectedProvider |-> "",
     fullContent |-> s.fullContent]

\* setIsStreaming(true), setStreamingContent(''), buildMessagesForStream and
\* the call of streamChatResponse
startStream(k) ==
    LET s == submits[k]
    IN  /\ isStreaming' = TRUE
        /\ streamingContent' = <<>>
        /\ op' = "buildMessagesForStream"
        /\ pc' = "done"
        /\ messages' = s.messages
        /\ userContent' = s.userContent
        /\ files' = s.files
        /\ supportsVision' = s.supportsVision
        /\ provider' = s.selectedProvider
        /\ result' = buildMessagesForStream(s.messages, s.userContent,
                                            s.files, s.supportsVision,
                                            s.selectedProvider)
        /\ submits' = [submits EXCEPT ![k].pc = "stream"]
        /\ UNCHANGED <<dataUrl, file>>

\* await addMessage(...) settles
AddMessageSettled(k, ok) ==
    /\ submits[k].pc = "addMessage"
    /\ IF ~ok
       THEN /\ submits' = [submits EXCEPT ![k] = returned(@, "failed")]
            /\ UNCHANGED <<isStreaming, streamingContent>>
            /\ UNCHANGED adapterVars
       ELSE IF Len(submits[k].messages) = 0
            THEN /\ submits' = [submits EXCEPT ![k].pc = "updateChatTitle"]
                 /\ UNCHANGED <<isStreaming, streamingContent>>
                 /\ UNCHANGED adapterVars
            ELSE startStream(k)
    /\ UNCHANGED <<settings, chatMessages, isDragging, droppedFiles, drops,
                   attachedFiles, picks, console, removed, used>>

\* await updateChatTitle(...) settles
UpdateChatTitleSettled(k, ok) ==
    /\ submits[k].pc = "updateChatTitle"
    /\ IF ~ok
       THEN /\ submits' = [submits EXCEPT ![k] = returned(@, "failed")]
            /\ UNCHANGED <<isStreaming, streamingContent>>
            /\ UNCHANGED adapterVars
       ELSE startStream(k)
    /\ UNCHANGED <<settings, chatMessages, isDragging, droppedFiles, drops,
                   attachedFiles, picks, console, removed, used>>

\* for await (const chunk of stream): a chunk of type content
StreamChunk(k) ==
    /\ submits[k].pc = "stream"
    /\ submits[k].fullContent = <<>>
    /\ \E c \in Replies :
         /\ submits' = [submits EXCEPT ![k].fullContent = c]
         /\ streamingContent' = c
    /\ UNCHANGED <<settings, chatMessages, isStreaming, isDragging,
                   droppedFiles, drops, attachedFiles, picks, console,
                   removed, used>>
    /\ UNCHANGED adapterVars

\* the stream ends (ok), or streamChatResponse or the stream throws
StreamSettled(k, ok) ==
    /\ submits[k].pc = "stream"
    /\ IF ok
       THEN /\ chatMessages' =
                 Append(chatMessages,
                        Message(ReplyMessageId(k), "assistant",
                                submits[k].fullContent))
            /\ streamingContent' = <<>>
            /\ submits' = [submits EXCEPT ![k].pc = "save"]
            /\ UNCHANGED <<isStreaming, console>>
       ELSE /\ console' = console \cup {"Streaming error:"}
            /\ chatMessages' =
                 Append(chatMessages,
                        Message(ErrorMessageId(k), "assistant", ApologyText))
            /\ isStreaming' = FALSE
            /\ submits' = [submits EXCEPT ![k] = returned(@, "caught")]
            /\ UNCHANGED streamingContent
    /\ UNCHANGED <<settings, isDragging, droppedFiles, drops, attachedFiles,
                   picks, removed, used>>
    /\ UNCHANGED adapterVars

\* await saveAssistantMessage(...) settles
SaveSettled(k, ok) ==
    /\ submits[k].pc = "save"
    /\ IF ok
       THEN /\ submits' = [submits EXCEPT ![k] = returned(@, "done")]
            /\ UNCHANGED <<chatMessages, console>>
       ELSE /\ console' = console \cup {"Streaming error:"}
            /\ chatMessages' =
                 Append(chatMessages,
                        Message(ErrorMessageId(k), "assistant", ApologyText))
            /\ submits' = [submits EXCEPT ![k] = returned(@, "caught")]
    /\ isStreaming' = FALSE
    /\ UNCHANGED <<settings, streamingContent, isDragging, droppedFiles,
                   drops, attachedFiles, picks, removed, used>>
    /\ UNCHANGED adapterVars

-----------------------------------------------------------------------------
(* The files of the user *)

\* the files of the user: a text file 0 and the images 1 and 2; those the
\* user selects in the file dialog, those the user drags onto the chat.  An
\* image is picked or dropped at most once.
ImageFiles == {1, 2}
PickedFiles == {0, 1}
DraggedFiles == {0, 2}

\* file.type.startsWith('image/')
isImage(f) == f \in ImageFiles

\* reader.readAsDataURL(file)
readAsDataURL(f) == DataPrefix \o ImagePng \o Base64Marker \o <<"Q", "U", "J", "D">>

\* the files of a selection S in the order of the FileList
RECURSIVE asFileList(_)
asFileList(S) ==
    IF S = {} THEN <<>>
    ELSE LET f == CHOOSE x \in S : \A y \in S : x <= y
         IN  <<f>> \o asFileList(S \ {f})

Selections(F) == { S \in SUBSET F : S # {} /\ S \cap used = {} }

\* the files of a selection that are read: the images, in order
imagesOf(S) == SelectSeq(asFileList(S), isImage)

\* newFiles.push({id, name, type, size, data: base64, preview: base64})
pushRead(newFiles, f) == Append(newFiles, AttachedFile(f, readAsDataURL(f)))

-----------------------------------------------------------------------------
(* Chat: drag and drop *)

handleDragOver ==
    /\ isDragging' = (IF modelSupportsVision THEN TRUE ELSE isDragging)
    /\ UNCHANGED <<settings, chatMessages, isStreaming, streamingContent,
                   droppedFiles, submits, drops, attachedFiles, picks,
                   console, removed, used>>
    /\ UNCHANGED adapterVars

handleDragLeave ==
    /\ isDragging' = FALSE
    /\ UNCHANGED <<settings, chatMessages, isStreaming, streamingContent,
                   droppedFiles, submits, drops, attachedFiles, picks,
                   console, removed, used>>
    /\ UNCHANGED adapterVars

\* handleDrop up to its first await
handleDrop(S) ==
    /\ S \in Selections(DraggedFiles)
    /\ isDragging' = FALSE
    /\ IF modelSupportsVision /\ imagesOf(S) # <<>>
       THEN /\ drops' = drops \cup {[pending |-> imagesOf(S), newFiles |-> <<>>]}
            /\ used' = used \cup (S \cap ImageFiles)
       ELSE UNCHANGED <<drops, used>>
    /\ UNCHANGED <<settings, chatMessages, isStreaming, streamingContent,
                   droppedFiles, submits, attachedFiles, picks, console,
                   removed>>
    /\ UNCHANGED adapterVars

\* handleDrop: a file has been read; after the last one,
\* setDroppedFiles(newFiles)
DropRead(d) ==
    /\ d \in drops
    /\ LET newFiles == pushRead(d.newFiles, Head(d.pending))
       IN  IF Tail(d.pending) = <<>>
           THEN /\ droppedFiles' = newFiles
                /\ drops' = drops \ {d}
           ELSE /\ drops' = (drops \ {d}) \cup
                              {[pending |-> Tail(d.pending),
                                newFiles |-> newFiles]}
                /\ UNCHANGED droppedFiles
    /\ UNCHANGED <<settings, chatMessages, isStreaming, streamingContent,
                   isDragging, submits, attachedFiles, picks, console,
                   removed, used>>
    /\ UNCHANGED adapterVars

-----------------------------------------------------------------------------
(* ChatInput *)

MaxMessageLength == 4000

\* the validator of the field message: TRUE when the value is accepted
validMessage(value) ==
    ~(value = <<>> \/ Len(trim(value)) = 0) /\ ~(Len(value) > MaxMessageLength)

\* the effect on droppedFiles: the dropped files are appended and
\* onDroppedFilesConsumed clears them in Chat
ConsumeDroppedFiles ==
    /\ Len(droppedFiles) > 0
    /\ attachedFiles' = attachedFiles \o droppedFiles
    /\ droppedFiles' = <<>>
    /\ UNCHANGED <<settings, chatMessages, isStreaming, streamingContent,
                   isDragging, submits, drops, picks, console, removed, used>>
    /\ UNCHANGED adapterVars

\* the form is submitted with the text typed: onSubmit of useForm calls
\* handleSubmit of Chat, resets the form and clears the attachments
FormSubmit(text) ==
    /\ ~isStreaming
    /\ validMessage(text)
    /\ Len(submits) < MaxSubmits
    /\ handleSubmit(text, IF Len(attachedFiles) > 0
                          THEN FileList(attachedFiles)
                          ELSE Undefined)
    /\ attachedFiles' = <<>>
    /\ UNCHANGED <<settings, isStreaming, streamingContent, isDragging,
                   droppedFiles, drops, picks, removed, used>>
    /\ UNCHANGED adapterVars

\* handleFileSelect up to its first await; the invocation keeps the
\* attachedFiles of the render it was created in
handleFileSelect(S) ==
    /\ S \in Selections(PickedFiles)
    /\ IF modelSupportsVision /\ imagesOf(S) # <<>>
       THEN /\ picks' = picks \cup {[attachedFiles |-> attachedFiles,
                                     pending |-> imagesOf(S),
                                     newFiles |-> <<>>]}
            /\ used' = used \cup (S \cap ImageFiles)
       ELSE UNCHANGED <<picks, used>>
    /\ UNCHANGED <<settings, chatMessages, isStreaming, streamingContent,
                   isDragging, droppedFiles, submits, drops, attachedFiles,
                   console, removed>>
    /\ UNCHANGED adapterVars

\* handleFileSelect: a file has been read; after the last one,
\* setAttachedFiles([...attachedFiles, ...newFiles])
FileSelectRead(p) ==
    /\ p \in picks
    /\ LET newFiles == pushRead(p.newFiles, Head(p.pending))
       IN  IF Tail(p.pending) = <<>>
           THEN /\ attachedFiles' = p.attachedFiles \o newFiles
                /\ picks' = picks \ {p}
           ELSE /\ picks' = (picks \ {p}) \cup
                              {[attachedFiles |-> p.attachedFiles,
                                pending |-> Tail(p.pending),
                                newFiles |-> newFiles]}
                /\ UNCHANGED attachedFiles
    /\ UNCHANGED <<settings, chatMessages, isStreaming, streamingContent,
                   isDragging, droppedFiles, submits, drops, console,
                   removed, used>>
    /\ UNCHANGED adapterVars

\* the remove button of the attachment with this id
RemoveAttachment(id) ==
    /\ \E i \in 1..Len(attachedFiles) : attachedFiles[i].id = id
    /\ attachedFiles' = SelectSeq(attachedFiles, LAMBDA f : f.id # id)
    /\ removed' = removed \cup {id}
    /\ UNCHANGED <<settings, chatMessages, isStreaming, streamingContent,
                   isDragging, droppedFiles, submits, drops, picks, console,
                   used>>
    /\ UNCHANGED adapterVars

-----------------------------------------------------------------------------
(* The components *)

InitChat ==
    /\ ComponentInit
    /\ op = "buildMessagesForStream"
    /\ pc = "call"
    /\ dataUrl = <<>>
    /\ file = NoFile
    /\ messages = <<>> /\ userContent = <<>> /\ files = Undefined
    /\ supportsVision = FALSE /\ provider = "openai"
    /\ result = None

\* Chat with the file picker of ChatInput as the source of attachments
NextChat ==
    \/ ChangeSettings
    \/ \E text \in Texts : FormSubmit(text)
    \/ \E k \in 1..Len(submits), ok \in BOOLEAN : AddMessageSettled(k, ok)
    \/ \E k \in 1..Len(submits), ok \in BOOLEAN : UpdateChatTitleSettled(k, ok)
    \/ \E k \in 1..Len(submits) : StreamChunk(k)
    \/ \E k \in 1..Len(submits), ok \in BOOLEAN : StreamSettled(k, ok)
    \/ \E k \in 1..Len(submits), ok \in BOOLEAN : SaveSettled(k, ok)
    \/ \E S \in SUBSET PickedFiles : handleFileSelect(S)
    \/ \E p \in picks : FileSelectRead(p)

SpecChat == InitChat /\ [][NextChat]_vars

\* the composer: ChatInput and the drop handlers of Chat, the requests of
\* handleSubmit still pending
NextInput ==
    \/ ChangeSettings
    \/ \E text \in Texts : FormSubmit(text)
    \/ handleDragOver
    \/ handleDragLeave
    \/ \E S \in SUBSET DraggedFiles : handleDrop(S)
    \/ \E d \in drops : DropRead(d)
    \/ ConsumeDroppedFiles
    \/ \E S \in SUBSET PickedFiles : handleFileSelect(S)
    \/ \E p \in picks : FileSelectRead(p)
    \/ \E id \in ImageFiles : RemoveAttachment(id)

SpecInput == InitChat /\ [][NextInput]_vars

-----------------------------------------------------------------------------
(* Vocabulary of the properties, stated without the operators above *)

Parsed == pc = "done" /\ op = "parseDataUrl"
Formatted == pc = "done" /\ op = "formatImageForProvider"
Built == pc = "done" /\ op = "buildMessagesForStream"

IsBlank(s) == \A i \in 1..Len(s) : s[i] \in WhiteSpace

\* t is s without its leading and trailing white space
IsTrimOf(t, s) ==
    \E a \in 0..Len(s), b \in 0..Len(s) :
        /\ a + b <= Len(s)
        /\ \A k \in 1..a : s[k] \in WhiteSpace
        /\ \A k \in (Len(s) - b + 1)..Len(s) : s[k] \in WhiteSpace
        /\ t = SubSeq(s, a + 1, Len(s) - b)
        /\ t # <<>> => (t[1] \notin WhiteSpace /\ t[Len(t)] \notin WhiteSpace)

\* a media type that can stand in data:<m>;base64,<p>
IsMediaType(m) == m # <<>> /\ \A k \in 1..Len(m) : m[k] # ";"

\* s is data:<m>;base64,<p> for a media type m and a payload p
IsDataUrlOf(s, m, p) == IsMediaType(m) /\ s = DataPrefix \o m \o Base64Marker \o p

InGrammar(s) ==
    \E i \in 6..Len(s) :
        IsDataUrlOf(s, SubSeq(s, 6, i), SubSeq(s, i + 9, Len(s)))

HasDataPrefix(s) == Len(s) >= 5 /\ SubSeq(s, 1, 5) = DataPrefix

NonEmptyAttachments == files.defined /\ files.list # <<>>
Branch2 == NonEmptyAttachments /\ supportsVision

\* the history turns kept by branch 2, and the j-th of them
Kept == { i \in 1..Len(messages) : ~IsBlank(messages[i].content) }
KeptAt(j) == CHOOSE i \in Kept : Cardinality({k \in Kept : k < i}) = j - 1

Turn(m) == [role |-> m.role, content |-> [typeof |-> "string", value |-> m.content]]
LastTurn == result[Len(result)]

-----------------------------------------------------------------------------
(* buildMessagesForStream *)

\* C1: with a non-empty attachment list and supportsVision true, the result
\* is the history turns whose content is not blank, in their order and
\* reduced to role and content, followed by one user turn whose content is
\* the part sequence assembled from the text, the attachments and the
\* provider; nothing else.
C1_Branch2Exact ==
    (Built /\ Branch2) =>
        LET n == Cardinality(Kept)
        IN  /\ Len(result) = n + 1
            /\ \A j \in 1..n : result[j] = Turn(messages[KeptAt(j)])
            /\ LastTurn =
                 [role |-> "user",
                  content |->
                    [typeof |-> "object",
                     value |-> formatMessageContent(userContent, files.list,
                                                    provider)]]

C1_Witness ==
    /\ Built /\ Branch2
    /\ Len(messages) = 2
    /\ IsBlank(messages[1].content)
    /\ ~IsBlank(messages[2].content)
    /\ Len(result) = 2

\* C2 as stated: whatever the arguments, no turn of the result has a string
\* content that is empty after trimming.
C2_NoBlankTurnEver ==
    Built =>
        \A i \in 1..Len(result) :
            result[i].content.typeof = "string"
                => ~IsBlank(result[i].content.value)

\* C2 as amended: with a non-empty attachment list and supportsVision true,
\* no turn of the result has a string content that is empty after trimming.
C2_NoBlankTurnBranch2 ==
    (Built /\ Branch2) =>
        \A i \in 1..Len(result) :
            result[i].content.typeof = "string"
                => ~IsBlank(result[i].content.value)

C2_Witness ==
    /\ Built /\ Branch2
    /\ \E i \in 1..Len(messages) :
         messages[i].content # <<>> /\ IsBlank(messages[i].content)
    /\ userContent = <<>>

\* C3: with an undefined or empty attachment list, or supportsVision false,
\* the result has len(history)+1 turns; turn i is role and content of history
\* turn i, content unchanged, no other field; the last turn is the user text
\* as a plain string.
C3_Branch1Exact ==
    (Built /\ ~Branch2) =>
        /\ Len(result) = Len(messages) + 1
        /\ \A i \in 1..Len(messages) :
             /\ result[i] = Turn(messages[i])
             /\ DOMAIN result[i] = {"role", "content"}
        /\ LastTurn =
             [role |-> "user",
              content |-> [typeof |-> "string", value |-> userContent]]

C3_Witness ==
    /\ Built /\ ~Branch2
    /\ supportsVision /\ files = FileList(<<>>)
    /\ \E i \in 1..Len(messages) : IsBlank(messages[i].content)

\* C4: a call with an undefined attachment list returns the same array as
\* the call with an empty attachment list and otherwise the same arguments.
C4_UndefinedAsEmpty ==
    /\ (Built /\ files = Undefined) =>
          result = buildMessagesForStream(messages, userContent,
                                          FileList(<<>>), supportsVision,
                                          provider)
    /\ (Built /\ files = FileList(<<>>)) =>
          result = buildMessagesForStream(messages, userContent, Undefined,
                                          supportsVision, provider)

C4_Witness ==
    /\ Built /\ files = FileList(<<>>)
    /\ supportsVision
    /\ messages # <<>>

\* C5: with supportsVision false and a non-empty attachment list, every turn
\* of the result has plain string content, and the result is the one of the
\* call without attachments and the same for every provider.
C5_NoVisionDropsAttachments ==
    (Built /\ NonEmptyAttachments /\ ~supportsVision) =>
        /\ \A i \in 1..Len(result) : result[i].content.typeof = "string"
        /\ result = buildMessagesForStream(messages, userContent, Undefined,
                                           supportsVision, provider)
        /\ \A p \in Providers :
             result = buildMessagesForStream(messages, userContent, files,
                                             supportsVision, p)
        /\ LastTurn.content.value = userContent

C5_Witness ==
    /\ Built /\ NonEmptyAttachments /\ ~supportsVision
    /\ provider = "anthropic"
    /\ Len(files.list) = 2

-----------------------------------------------------------------------------
(* formatImageForProvider *)

C7_UrlProviders ==
    (Formatted /\ provider \notin {"anthropic", "gemini"}) =>
        /\ DOMAIN result = {"type", "source"}
        /\ result.type = "image"
        /\ result.source.type = "url"
        /\ result.source.value = file.data

C7_Witness ==
    /\ Formatted /\ provider = "mistral"
    /\ file.data # <<>>
    /\ file.data[1] \in WhiteSpace
    /\ result.source.type = "url"

-----------------------------------------------------------------------------
(* parseDataUrl *)

\* C8: for every string data:<m>;base64,<p>, m a media type and p any
\* payload, the result has mediaType m and base64Data p without its leading
\* and trailing white space.
C8_ParsesEveryDataUrl ==
    Parsed =>
        \A m \in MediaTypes, p \in Payloads :
            IsDataUrlOf(dataUrl, m, p) =>
                /\ result.mediaType = m
                /\ IsTrimOf(result.base64Data, p)

\* C9: for every string outside the data-URL grammar (no data: prefix, no
\* media type, a media type that cannot be parsed) the result is mediaType
\* image/png and base64Data the whole input trimmed; a result is returned
\* for every input.
C9_Fallback ==
    Parsed =>
        /\ DOMAIN result = {"mediaType", "base64Data"}
        /\ (~HasDataPrefix(dataUrl) \/ ~InGrammar(dataUrl)) =>
              /\ result.mediaType = ImagePng
              /\ IsTrimOf(result.base64Data, dataUrl)

C9_Witness ==
    /\ Parsed
    /\ HasDataPrefix(dataUrl) /\ ~InGrammar(dataUrl)
    /\ \E k \in 1..Len(dataUrl) : dataUrl[k] = ";"
    /\ dataUrl[Len(dataUrl)] \in WhiteSpace
    /\ result.mediaType = ImagePng

-----------------------------------------------------------------------------
(* formatMessageContent *)

\* C10: the content of the multimodal turn for text t and attachments
\* f1..fn has n+1 parts: first a text part carrying t, also when t is
\* empty, then as part i+1 the image part of fi for the provider.
C10_TextThenImages ==
    (Built /\ Branch2) =>
        LET parts == LastTurn.content.value
            n == Len(files.list)
        IN  /\ LastTurn.content.typeof = "object"
            /\ Len(parts) = n + 1
            /\ parts[1] = [type |-> "text", content |-> userContent]
            /\ \A i \in 1..n :
                 /\ parts[i + 1].type = "image"
                 /\ parts[i + 1] =
                      formatImageForProvider(files.list[i], provider)

C10_Witness ==
    /\ Built /\ Branch2
    /\ userContent = <<>>
    /\ Len(files.list) = 2
    /\ files.list[1].data # files.list[2].data
    /\ provider = "anthropic"
    /\ LastTurn.content.value[1].type = "text"

-----------------------------------------------------------------------------
(* Totality *)

IsString(s) == DOMAIN s = 1..Len(s) /\ \A i \in 1..Len(s) : s[i] \in STRING

IsImagePart(part) ==
    /\ DOMAIN part = {"type", "source"}
    /\ part.type = "image"
    /\ part.source.type \in {"data", "url"}
    /\ IsString(part.source.value)

IsFormattedMessage(t) ==
    /\ DOMAIN t = {"role", "content"}
    /\ t.role \in Roles
    /\ \/ t.content.typeof = "string" /\ IsString(t.content.value)
       \/ /\ t.content.typeof = "object"
          /\ Len(t.content.value) >= 1
          /\ t.content.value[1].type = "text"
          /\ \A i \in 2..Len(t.content.value) :
               IsImagePart(t.content.value[i])

\* C11: parseDataUrl, formatImageForProvider and buildMessagesForStream
\* return a value of their result type for every input and never raise:
\* what a call returns, whatever its input, is a parse result, an image
\* part, or a non-empty array of formatted messages.
C11_Total ==
    /\ Parsed =>
         /\ DOMAIN result = {"mediaType", "base64Data"}
         /\ IsString(result.mediaType) /\ IsString(result.base64Data)
    /\ Formatted => IsImagePart(result)
    /\ Built =>
         /\ Len(result) >= 1
         /\ \A i \in 1..Len(result) : IsFormattedMessage(result[i])

C11_Witness ==
    /\ Built /\ Branch2
    /\ provider = "mistral"
    /\ \E i \in 1..Len(messages) : messages[i].content = <<>>
    /\ \E i \in 1..Len(files.list) : ~HasDataPrefix(files.list[i].data)
    /\ IsImagePart(LastTurn.content.value[2])

-----------------------------------------------------------------------------
(* Chat: handleSubmit *)

InFlight == {"addMessage", "updateChatTitle", "stream", "save"}

UserTurns == { i \in 1..Len(chatMessages) : chatMessages[i].role = "user" }

\* C13: buildMessagesForStream is never invoked by handleSubmit with a
\* non-empty attachment list and supportsVision false: no invocation past
\* the guards holds attachments without vision support, whatever model is
\* selected while it runs, and a rejected submission appends no message.
C13_VisionCheckedBeforeAdapter ==
    /\ Built => ~(NonEmptyAttachments /\ ~supportsVision)
    /\ \A k \in 1..Len(submits) :
         submits[k].pc \in InFlight =>
            ~(/\ submits[k].files.defined
              /\ submits[k].files.list # <<>>
              /\ ~submits[k].supportsVision)
    /\ Cardinality(UserTurns) = Len(submits)

C13_Witness ==
    /\ "Current model does not support images" \in console
    /\ ~modelSupportsVision
    /\ used # {}
    /\ attachedFiles = <<>>
    /\ chatMessages = <<>> /\ submits = <<>>
    /\ ~Built

\* C14: at most one invocation of handleSubmit is past its guards and has
\* not returned.
C14_OneSubmitInFlight ==
    Cardinality({ k \in 1..Len(submits) : submits[k].pc \in InFlight }) <= 1

\* C15: a submission that reached the streaming step and has returned has
\* exactly one assistant message in the message list, after its user
\* message: the streamed reply when streaming and saving succeeded, the
\* apology otherwise.
C15_OneAssistantMessage ==
    \A k \in 1..Len(submits) :
        submits[k].pc \in {"done", "caught"} =>
            LET mine == { i \in 1..Len(chatMessages) :
                            chatMessages[i].id \in
                              {ReplyMessageId(k), ErrorMessageId(k)} }
            IN  /\ Cardinality(mine) = 1
                /\ \A i \in mine :
                     /\ chatMessages[i].role = "assistant"
                     /\ \E u \in 1..(i - 1) :
                          chatMessages[u].id = UserMessageId(k)
                     /\ submits[k].pc = "done" =>
                          /\ chatMessages[i].id = ReplyMessageId(k)
                          /\ chatMessages[i].content = submits[k].fullContent
                     /\ submits[k].pc = "caught" =>
                          /\ chatMessages[i].id = ErrorMessageId(k)
                          /\ chatMessages[i].content = ApologyText

-----------------------------------------------------------------------------
(* ChatInput: the attachments *)

AttachedIds == { attachedFiles[i].id : i \in 1..Len(attachedFiles) }

\* C16: an attachment leaves attachedFiles only when its remove button is
\* pressed or the form is submitted, and an attachment that was removed is
\* not in attachedFiles again.
C16_NoAttachmentLost ==
    [][/\ \/ \E id \in ImageFiles : RemoveAttachment(id)
          \/ \E text \in Texts : FormSubmit(text)
          \/ AttachedIds \subseteq AttachedIds'
       /\ AttachedIds' \cap removed' = {}]_vars

====
